---- MODULE Spec2Model ----
(***************************************************************************)
(* A model of the BSM_pet option pricing library: the finite-difference    *)
(* Greeks estimator (numerical_greeks.py), the binomial lattice engine     *)
(* (binomial_engine.py), the Longstaff-Schwartz regression engine          *)
(* (longstaff_schwartz_engine.py), the Monte Carlo engine with the         *)
(* generator it draws from (monte_carlo_engine.py) and the implied         *)
(* volatility search (implied_volatility.py).                              *)
(*                                                                         *)
(* Real numbers are represented by integers in fixed units:                *)
(*   - underlying_price, volatility and risk_free_rate of the Greeks model *)
(*     are integers in micro-units, so that x * (1 +/- h) with h = 1/HDen  *)
(*     is again an integer;                                                *)
(*   - expiration_time of the Greeks model is counted in days (1/365 y).   *)
(***************************************************************************)
EXTENDS Integers, Sequences, FiniteSets, TLC

\* ------------------------------------------------------------------------
\* Bounds of the model
\* ------------------------------------------------------------------------
\* number of Greeks invocations a caller makes one after the other
MaxCalls == 2
\* largest step count of the binomial tree
MaxSteps == 3
\* expiration time of the lattice options, in ticks (exercise dates are ticks)
TTicks == 4
\* largest number of exercise dates of a Bermudan option
MaxDates == 2
\* number of simulated paths of the Longstaff-Schwartz engine
NumSimulations == 3
\* simulated prices are whole numbers 1..MaxPrice
MaxPrice == 4

\* ------------------------------------------------------------------------
\* Program constants
\* ------------------------------------------------------------------------
\* NumericalGreeks.__init__: h = 0.001 = 1 / HDen
HDen == 1000
\* calculate_theta: one_day = 1/365 year = OneDay days
OneDay == 1

VARIABLES
    option,        \* the shared Option object handed to the Greeks estimator
    market_data,   \* the shared MarketData object
    frames,        \* per caller thread: the activation of the Greeks method
    ncalls,        \* number of Greeks invocations started so far
    overlap,       \* history: some invocation started while another was running
    lattice,       \* BinomialEngine.calculate: its inputs and derived factors
    option_values, \* BinomialEngine.calculate: the array, per exercise style
    prev_values,   \* history: option_values before the last backward step
    j,             \* BinomialEngine.calculate: the step the loop is about to do
    price,         \* BinomialEngine.calculate: the returned price, per style
    ls,            \* LongstaffSchwartzEngine.calculate: its inputs
    asset_paths,   \* LongstaffSchwartzEngine.calculate: the simulated paths
    cash_flows,    \* LongstaffSchwartzEngine.calculate: the cash-flow matrix
    t,             \* LongstaffSchwartzEngine.calculate: the step the loop is about to do
    ls_price,      \* LongstaffSchwartzEngine.calculate: the returned price
    prev_cash_flows, \* history: cash_flows before the last backward step
    last_step,     \* history: in-the-money and exercising paths of the last step
    rng,           \* the state of the process-wide generator np.random
    engines,       \* the MonteCarloEngine objects: the seed each was given
    mc_option,     \* MonteCarloEngine.calculate: the option and arguments priced
    mc_log,        \* history: the MonteCarloEngine.calculate calls made so far
    iv             \* calculate_implied_volatility: its inputs and position

greeksVars == <<option, market_data, frames, ncalls, overlap>>

mcVars == <<rng, engines, mc_option, mc_log>>

latticeVars == <<lattice, option_values, prev_values, j, price>>

lsVars == <<ls, asset_paths, cash_flows, t, ls_price, prev_cash_flows, last_step>>

vars == <<option, market_data, frames, ncalls, overlap,
          lattice, option_values, prev_values, j, price,
          ls, asset_paths, cash_flows, t, ls_price, prev_cash_flows, last_step,
          rng, engines, mc_option, mc_log, iv>>

\* the callers: one in the sequential specification, both in the concurrent one
Threads == {1, 2}

\* ------------------------------------------------------------------------
\* The Greeks estimator (numerical_greeks.py)
\* ------------------------------------------------------------------------
GreekNames == {"delta", "gamma", "theta", "vega", "rho"}

\* calculate_all evaluates its dict literal in this order
AllOrder == <<"delta", "gamma", "theta", "vega", "rho">>

\* the field of option / market_data each Greek perturbs
FieldOf(g) ==
    CASE g \in {"delta", "gamma"} -> "underlying_price"
      [] g = "theta" -> "expiration_time"
      [] g = "vega" -> "volatility"
      [] g = "rho" -> "risk_free_rate"

OptionFields == {"underlying_price", "expiration_time"}

\* the subclasses of Option and the exercise style each constructor hands
\* to Option.__init__
OptionClasses == {"EuropeanOption", "AmericanOption", "BermudanOption", "AsianOption"}

ExerciseTypeOf(class) ==
    CASE class = "EuropeanOption" -> "EUROPEAN"
      [] class = "AmericanOption" -> "AMERICAN"
      [] class = "BermudanOption" -> "BERMUDAN"
      [] class = "AsianOption" -> "ASIAN"

\* <class>(strike_price, expiration_time, option_type, underlying_price):
\* the fields of the new object the model follows
NewOption(class, S, T) ==
    [class |-> class, exercise_type |-> ExerciseTypeOf(class),
     underlying_price |-> S, expiration_time |-> T]

\* calculate_theta with its second engine call issued before the reset
ProgramLateReset(g) ==
    CASE g = "delta" -> <<"save", "up", "call", "down", "call", "reset", "ret">>
      [] g = "gamma" -> <<"save", "call", "up", "call", "down", "call", "reset", "ret">>
      [] g = "theta" -> <<"save", "up", "call", "call", "reset", "ret">>
      [] g = "vega" -> <<"save", "up", "call", "down", "call", "reset", "call", "ret">>
      [] g = "rho" -> <<"save", "up", "call", "down", "call", "reset", "ret">>

\* the statements of each calculate_<greek>, in program order
Program(g) ==
    CASE g = "delta" -> <<"save", "up", "call", "down", "call", "reset", "ret">>
      [] g = "gamma" -> <<"save", "call", "up", "call", "down", "call", "reset", "ret">>
      [] g = "theta" -> <<"save", "up", "call", "reset", "call", "ret">>
      [] g = "vega" -> <<"save", "up", "call", "down", "call", "reset", "call", "ret">>
      [] g = "rho" -> <<"save", "up", "call", "down", "call", "reset", "ret">>

\* a bump that leaves the value as it is
PerturbedNone(g, dir, original) == original

\* original * (1 + h), original * (1 - h); theta: original_time - one_day
Perturbed(g, dir, original) ==
    IF g = "theta" THEN original - OneDay
    ELSE IF dir = "up" THEN (original * (HDen + 1)) \div HDen
    ELSE (original * (HDen - 1)) \div HDen

ReadField(field) ==
    IF field \in OptionFields THEN option[field] ELSE market_data[field]

\* an assignment to expiration_time that also turns the option European
WriteFieldRetyping(field, v) ==
    IF field \in OptionFields
    THEN /\ option' = IF field = "expiration_time"
                      THEN [option EXCEPT ![field] = v,
                                          !.exercise_type = "EUROPEAN"]
                      ELSE [option EXCEPT ![field] = v]
         /\ UNCHANGED market_data
    ELSE /\ market_data' = [market_data EXCEPT ![field] = v]
         /\ UNCHANGED option

WriteField(field, v) ==
    IF field \in OptionFields
    THEN /\ option' = [option EXCEPT ![field] = v]
         /\ UNCHANGED market_data
    ELSE /\ market_data' = [market_data EXCEPT ![field] = v]
         /\ UNCHANGED option

\* what an engine reads of the two objects when it prices
Snapshot ==
    [underlying_price |-> option.underlying_price,
     expiration_time |-> option.expiration_time,
     volatility |-> market_data.volatility,
     risk_free_rate |-> market_data.risk_free_rate]

IdleFrame ==
    [status |-> "idle", op |-> "none", greek |-> "none", ip |-> 0,
     original |-> 0, prices |-> <<>>, results |-> <<>>, start |-> Snapshot]

Running(th) == frames[th].status = "running"

At(th, instr) ==
    /\ Running(th)
    /\ Program(frames[th].greek)[frames[th].ip] = instr

\* a caller invokes calculate_<greek> (op a Greek name) or calculate_all
Invoke(th, op) ==
    /\ ~Running(th)
    /\ ncalls < MaxCalls
    /\ ncalls' = ncalls + 1
    /\ frames' = [frames EXCEPT ![th] =
           [status |-> "running", op |-> op,
            greek |-> IF op = "all" THEN AllOrder[1] ELSE op,
            ip |-> 1, original |-> 0, prices |-> <<>>, results |-> <<>>,
            start |-> Snapshot]]
    /\ overlap' = (overlap \/ \E u \in Threads \ {th} : Running(u))
    /\ UNCHANGED <<option, market_data>>

\* original_x = option.x / market_data.x
SaveOriginal(th) ==
    /\ At(th, "save")
    /\ frames' = [frames EXCEPT ![th].original = ReadField(FieldOf(frames[th].greek)),
                                ![th].ip = @ + 1]
    /\ UNCHANGED <<option, market_data, ncalls, overlap>>

\* option.x = original_x * (1 + h), ... * (1 - h), original_time - one_day
Perturb(th, dir) ==
    /\ At(th, dir)
    /\ WriteField(FieldOf(frames[th].greek),
                  Perturbed(frames[th].greek, dir, frames[th].original))
    /\ frames' = [frames EXCEPT ![th].ip = @ + 1]
    /\ UNCHANGED <<ncalls, overlap>>

\* option.x = original_x
ResetFieldSkipped(th) ==
    /\ At(th, "reset")
    /\ frames' = [frames EXCEPT ![th].ip = @ + 1]
    /\ UNCHANGED <<option, market_data, ncalls, overlap>>

ResetField(th) ==
    /\ At(th, "reset")
    /\ WriteField(FieldOf(frames[th].greek), frames[th].original)
    /\ frames' = [frames EXCEPT ![th].ip = @ + 1]
    /\ UNCHANGED <<ncalls, overlap>>

\* self.engine.calculate(option, market_data)['price'] returns: the price is
\* a function of what the engine read, and is kept as that snapshot
EngineReturns(th) ==
    /\ At(th, "call")
    /\ frames' = [frames EXCEPT ![th].prices = Append(@, Snapshot),
                                ![th].ip = @ + 1]
    /\ UNCHANGED <<option, market_data, ncalls, overlap>>

\* self.engine.calculate raises: no handler in calculate_<greek> nor in
\* calculate_all, the exception leaves the estimator
EngineRaises(th) ==
    /\ At(th, "call")
    /\ frames' = [frames EXCEPT ![th].status = "raised"]
    /\ UNCHANGED <<option, market_data, ncalls, overlap>>

\* position of a Greek in calculate_all's order
OrderIndex(g) == CHOOSE k \in 1..Len(AllOrder) : AllOrder[k] = g

\* return (...): ends the call, or moves calculate_all to its next Greek
ReturnGreek(th) ==
    /\ At(th, "ret")
    /\ LET f == frames[th]
           res == Append(f.results,
                         [greek |-> f.greek, prices |-> f.prices,
                          original |-> f.original])
       IN IF f.op = "all" /\ OrderIndex(f.greek) < Len(AllOrder)
          THEN frames' = [frames EXCEPT ![th].greek = AllOrder[OrderIndex(f.greek) + 1],
                                        ![th].ip = 1,
                                        ![th].prices = <<>>,
                                        ![th].results = res]
          ELSE frames' = [frames EXCEPT ![th].status = "returned",
                                        ![th].results = res]
    /\ UNCHANGED <<option, market_data, ncalls, overlap>>


\* ------------------------------------------------------------------------
\* The binomial lattice engine (binomial_engine.py)
\*
\* The engine's reals are kept exact as scaled integers.  The inputs are
\*   u = exp(sigma * sqrt(dt)) = U              (d = 1 / U)
\*   exp((r - q) * dt)         = gn / gd
\*   exp(-r * dt)              = dn / dd
\* so that p = (gn/gd - 1/U) / (U - 1/U) = PNum / PDen.  A node price
\* S * u^(j-i) * d^i is kept multiplied by U^steps, and an option value of
\* step j multiplied by Scale(j) = U^steps * (dd * PDen)^(steps - j).
\* Times are counted in ticks: T = TTicks, dt = T / steps.
\* ------------------------------------------------------------------------
ExerciseTypes == {"EUROPEAN", "AMERICAN", "BERMUDAN", "ASIAN"}

RECURSIVE Pow(_, _)
Pow(b, e) == IF e = 0 THEN 1 ELSE b * Pow(b, e - 1)

Max(a, b) == IF a >= b THEN a ELSE b

Min(a, b) == IF a <= b THEN a ELSE b

Abs(a) == IF a >= 0 THEN a ELSE -a

\* p = (np.exp((r - q) * dt) - d) / (u - d), as PNum / PDen
PNum == lattice.gn * lattice.U - lattice.gd
PDen == lattice.gd * (lattice.U * lattice.U - 1)

\* the factor an option value of step jj is multiplied by
Scale(jj) == Pow(lattice.U, lattice.steps)
                 * Pow(lattice.dd * PDen, lattice.steps - jj)

\* S * (u ** (jj - i)) * (d ** i), times U^steps
NodePrice(jj, i) == lattice.S * Pow(lattice.U, lattice.steps + jj - 2 * i)

\* Option.payoff on a scalar, of a price that is multiplied by U^steps
Payoff(spot) ==
    IF lattice.option_type = "CALL"
    THEN Max(spot - lattice.K * Pow(lattice.U, lattice.steps), 0)
    ELSE Max(lattice.K * Pow(lattice.U, lattice.steps) - spot, 0)

\* np.exp(-r * dt) * (p * option_values[i] + (1 - p) * option_values[i + 1])
ContinuationValue(up, down) ==
    lattice.dn * (PNum * up + (PDen - PNum) * down)

\* option.payoff(current_asset_price), at the scale of step jj
ExerciseValue(jj, i) ==
    Payoff(NodePrice(jj, i)) * Pow(lattice.dd * PDen, lattice.steps - jj)

\* any(abs(current_time - date) < dt/2 for date in option.exercise_dates),
\* with current_time = jj * dt and dt = T / steps, multiplied by 2 * steps
IsExerciseDateInclusive(jj) ==
    \E date \in lattice.exercise_dates :
        Abs(2 * jj * lattice.T - 2 * lattice.steps * date) <= lattice.T

IsExerciseDate(jj) ==
    \E date \in lattice.exercise_dates :
        Abs(2 * jj * lattice.T - 2 * lattice.steps * date) < lattice.T

\* an AMERICAN node that is not compared with the exercise value at step 0
NodeValueNoRoot(style, jj, i, old, up, down) ==
    IF style = "EUROPEAN" THEN ContinuationValue(up, down)
    ELSE IF style = "AMERICAN"
    THEN IF jj = 0 THEN ContinuationValue(up, down)
         ELSE Max(ExerciseValue(jj, i), ContinuationValue(up, down))
    ELSE IF style = "BERMUDAN"
    THEN IF IsExerciseDate(jj)
         THEN Max(ExerciseValue(jj, i), ContinuationValue(up, down))
         ELSE ContinuationValue(up, down)
    ELSE old

\* an AMERICAN node that takes the smaller of the two values
NodeValueMin(style, jj, i, old, up, down) ==
    IF style = "EUROPEAN" THEN ContinuationValue(up, down)
    ELSE IF style = "AMERICAN"
    THEN Min(ExerciseValue(jj, i), ContinuationValue(up, down))
    ELSE IF style = "BERMUDAN"
    THEN IF IsExerciseDate(jj)
         THEN Max(ExerciseValue(jj, i), ContinuationValue(up, down))
         ELSE ContinuationValue(up, down)
    ELSE old

\* a BERMUDAN node that matches its dates with <= dt/2
NodeValueInclusive(style, jj, i, old, up, down) ==
    IF style = "EUROPEAN" THEN ContinuationValue(up, down)
    ELSE IF style = "AMERICAN"
    THEN Max(ExerciseValue(jj, i), ContinuationValue(up, down))
    ELSE IF style = "BERMUDAN"
    THEN IF IsExerciseDateInclusive(jj)
         THEN Max(ExerciseValue(jj, i), ContinuationValue(up, down))
         ELSE ContinuationValue(up, down)
    ELSE old

\* the if / elif chain on option.exercise_type: the new option_values[i];
\* no branch for a style that is none of the three, the cell keeps its value
\* (times the change of scale, the cell being a real number in the code)
NodeValue(style, jj, i, old, up, down) ==
    IF style = "EUROPEAN" THEN ContinuationValue(up, down)
    ELSE IF style = "AMERICAN"
    THEN Max(ExerciseValue(jj, i), ContinuationValue(up, down))
    ELSE IF style = "BERMUDAN"
    THEN IF IsExerciseDate(jj)
         THEN Max(ExerciseValue(jj, i), ContinuationValue(up, down))
         ELSE ContinuationValue(up, down)
    ELSE old

\* an inner loop on the one array that runs from i = jj down to 0
RECURSIVE InnerLoopDescending(_, _, _, _)
InnerLoopDescending(style, vals, jj, i) ==
    IF i > jj THEN vals
    ELSE InnerLoopDescending(style,
                   [vals EXCEPT ![jj - i] =
                        NodeValue(style, jj, jj - i,
                                  vals[jj - i] * lattice.dd * PDen,
                                  vals[jj - i], vals[jj - i + 1])],
                   jj, i + 1)

\* for i in range(jj + 1): option_values[i] = ..., on the one array
RECURSIVE InnerLoop(_, _, _, _)
InnerLoop(style, vals, jj, i) ==
    IF i > jj THEN vals
    ELSE InnerLoop(style,
                   [vals EXCEPT ![i] =
                        NodeValue(style, jj, i,
                                  vals[i] * lattice.dd * PDen,
                                  vals[i], vals[i + 1])],
                   jj, i + 1)

\* option_values[i] = option.payoff(asset_prices[i]) for i in range(steps + 1)
TerminalValues(steps) ==
    [i \in 0..steps |-> Payoff(NodePrice(steps, i))]

LatticeInputs ==
    [steps : 1..MaxSteps,
     S : {3, 5},
     K : {4},
     option_type : {"CALL", "PUT"},
     U : {2},
     gn : {1, 2, 3}, gd : {1},
     dn : {1}, dd : {1, 2, 3},
     T : {TTicks},
     exercise_dates : {D \in SUBSET (0..TTicks) : Cardinality(D) <= MaxDates}]
    \cup
    [steps : 1..MaxSteps,
     S : {3, 5},
     K : {4},
     option_type : {"CALL", "PUT"},
     U : {2},
     gn : {1}, gd : {4},
     dn : {1}, dd : {1},
     T : {TTicks},
     exercise_dates : {D \in SUBSET (0..TTicks) : Cardinality(D) <= MaxDates}]

\* the value of j once the price is returned
Returned == -2

\* the state before the backward loop: the terminal payoffs are in the array
InitLattice ==
    /\ lattice \in LatticeInputs
    /\ option_values = [style \in ExerciseTypes |-> TerminalValues(lattice.steps)]
    /\ prev_values = option_values
    /\ j = lattice.steps - 1
    /\ price = [style \in ExerciseTypes |-> 0]

\* no lattice run: the state of the specifications about the other engines
LatticeIdle ==
    /\ lattice = [steps |-> 0]
    /\ option_values = <<>>
    /\ prev_values = <<>>
    /\ j = Returned
    /\ price = <<>>

\* one pass of `for j in range(steps - 1, -1, -1)`, for the options of the
\* four exercise styles priced with the same inputs
BackwardStep ==
    /\ j >= 0
    /\ option_values' = [style \in ExerciseTypes |->
                            InnerLoop(style, option_values[style], j, 0)]
    /\ prev_values' = option_values
    /\ j' = j - 1
    /\ UNCHANGED <<lattice, price>>

\* return {'price': option_values[0]}; j = Returned marks the end of the call
ReturnPrice ==
    /\ j = -1
    /\ price' = [style \in ExerciseTypes |-> option_values[style][0]]
    /\ j' = Returned
    /\ UNCHANGED <<lattice, option_values, prev_values>>

NextLattice ==
    /\ BackwardStep \/ ReturnPrice
    /\ UNCHANGED greeksVars /\ UNCHANGED lsVars /\ UNCHANGED mcVars /\ UNCHANGED iv

GreeksIdle ==
    /\ option = [underlying_price |-> 0, expiration_time |-> 0]
    /\ market_data = [volatility |-> 0, risk_free_rate |-> 0]
    /\ frames = [th \in Threads |-> IdleFrame]
    /\ ncalls = 0
    /\ overlap = FALSE


\* ------------------------------------------------------------------------
\* The Longstaff-Schwartz engine (longstaff_schwartz_engine.py)
\*
\* Simulated prices and the strike are whole numbers, so cash flows are
\* too.  The one-step discount factor exp(-r * dt) is ls.dn / ls.dd.  A
\* fitted continuation value is kept as a fraction num / (den * ls.dd).
\* ------------------------------------------------------------------------
Paths == 1..NumSimulations

RECURSIVE SumOver(_, _)
SumOver(P, f) ==
    IF P = {} THEN 0
    ELSE LET k == CHOOSE k \in P : TRUE IN f[k] + SumOver(P \ {k}, f)

Det3(a11, a12, a13, a21, a22, a23, a31, a32, a33) ==
    a11 * (a22 * a33 - a23 * a32)
    - a12 * (a21 * a33 - a23 * a31)
    + a13 * (a21 * a32 - a22 * a31)

\* asset_paths[:, tt] > K for a CALL, asset_paths[:, tt] < K otherwise
InTheMoney(i, tt) ==
    IF ls.option_type = "CALL"
    THEN asset_paths[i][tt] > ls.K
    ELSE asset_paths[i][tt] < ls.K

\* a payoff with the sides CALL and PUT swapped
PayoffLSSwapped(spot) ==
    IF ls.option_type = "CALL" THEN Max(ls.K - spot, 0) ELSE Max(spot - ls.K, 0)

\* np.maximum(spot - K, 0.0) for a CALL, np.maximum(K - spot, 0.0) otherwise
PayoffLS(spot) ==
    IF ls.option_type = "CALL" THEN Max(spot - ls.K, 0) ELSE Max(ls.K - spot, 0)

\* LinearRegression().fit(Xs, Y) and .predict(Xs), Xs = [X, X * X] with an
\* intercept: the least-squares projection of y on span{1, x, x^2} at the
\* points of itm.  With three or more distinct prices the normal equations
\* have one solution (Cramer's rule); with fewer the projection is the mean
\* of y over the points of equal price.  y holds numerators over ls.dd.
Fit(itm, x, y) ==
    LET n == Cardinality(itm)
        pw(e) == [i \in itm |-> Pow(x[i], e)]
        pwy(e) == [i \in itm |-> Pow(x[i], e) * y[i]]
        Sx == SumOver(itm, pw(1))
        Sx2 == SumOver(itm, pw(2))
        Sx3 == SumOver(itm, pw(3))
        Sx4 == SumOver(itm, pw(4))
        Sy == SumOver(itm, y)
        Sxy == SumOver(itm, pwy(1))
        Sx2y == SumOver(itm, pwy(2))
        D == Det3(n, Sx, Sx2, Sx, Sx2, Sx3, Sx2, Sx3, Sx4)
        D0 == Det3(Sy, Sx, Sx2, Sxy, Sx2, Sx3, Sx2y, Sx3, Sx4)
        D1 == Det3(n, Sy, Sx2, Sx, Sxy, Sx3, Sx2, Sx2y, Sx4)
        D2 == Det3(n, Sx, Sy, Sx, Sx2, Sxy, Sx2, Sx3, Sx2y)
        same(i) == {k \in itm : x[k] = x[i]}
    IN IF Cardinality({x[i] : i \in itm}) >= 3
       THEN [i \in itm |->
                [num |-> D0 + D1 * x[i] + D2 * x[i] * x[i], den |-> D]]
       ELSE [i \in itm |->
                [num |-> SumOver(same(i), y), den |-> Cardinality(same(i))]]

\* exercise = exercise_values > continuation_values, as the sets of paths
\* the comparison can give: the two sides are floating-point numbers, and
\* where they are equal as reals rounding decides the outcome
ExerciseChoices(itm, x, fit) ==
    LET lhs(i) == PayoffLS(x[i]) * fit[i].den * ls.dd
        sure == {i \in itm : lhs(i) > fit[i].num}
        tied == {i \in itm : lhs(i) = fit[i].num}
    IN {sure \cup e : e \in SUBSET tied}

\* the two assignments without the second one
UpdatedCashFlowsNoZero(itm, exercise, x, tt) ==
    [i \in Paths |->
        IF i \in itm
        THEN [s \in 0..ls.time_steps |->
                 IF s = tt
                 THEN (IF i \in exercise THEN PayoffLS(x[i]) ELSE 0)
                 ELSE cash_flows[i][s]]
        ELSE cash_flows[i]]

\* cash_flows[in_the_money, t] = np.where(exercise, exercise_values, 0.0)
\* cash_flows[in_the_money, t + 1:] = 0.0
UpdatedCashFlows(itm, exercise, x, tt) ==
    [i \in Paths |->
        IF i \in itm
        THEN [s \in 0..ls.time_steps |->
                 IF s = tt
                 THEN (IF i \in exercise THEN PayoffLS(x[i]) ELSE 0)
                 ELSE IF s > tt THEN 0
                 ELSE cash_flows[i][s]]
        ELSE cash_flows[i]]

\* terminal cash flows paid on the wrong side
TerminalCashFlowsSwapped ==
    [i \in Paths |->
        [s \in 0..ls.time_steps |->
            IF s = ls.time_steps THEN PayoffLSSwapped(asset_paths[i][s]) ELSE 0]]

\* cash_flows = np.zeros(...); cash_flows[:, -1] = np.maximum(+-(S_T - K), 0.0)
TerminalCashFlows ==
    [i \in Paths |->
        [s \in 0..ls.time_steps |->
            IF s = ls.time_steps THEN PayoffLS(asset_paths[i][s]) ELSE 0]]

\* the paths a simulation can give, as far as the model follows them: a path
\* starts at S and moves by at most one price unit per time step
RECURSIVE Walks(_, _)
Walks(steps, S) ==
    IF steps = 0 THEN {<<S>>}
    ELSE {<<S>> \o w : w \in UNION {Walks(steps - 1, nxt) :
                                     nxt \in {S - 1, S, S + 1} \cap (1..MaxPrice)}}

RECURSIVE RowCode(_)
RowCode(w) == IF w = <<>> THEN 0 ELSE Head(w) + (MaxPrice + 1) * RowCode(Tail(w))

\* the ensembles of n paths, up to the order of the paths
RECURSIVE Ensembles(_, _)
Ensembles(n, rows) ==
    IF n = 0 THEN {<<>>}
    ELSE UNION {{<<r>> \o e :
                    e \in Ensembles(n - 1, {q \in rows : RowCode(q) >= RowCode(r)})} :
                r \in rows}

\* a path of the model is indexed from time 0
Row(w) == [s \in 0..(Len(w) - 1) |-> w[s + 1]]

\* the paths of one simulation: sigma * np.sqrt(dt) * z vanishes for
\* sigma = 0 and every path is the deterministic S * exp((r - q) * dt * s),
\* which stays at S for q = r; for sigma < 0 the shocks only change sign
SimulatedWalks(steps, S, sigma) ==
    IF sigma = 0 THEN {[s \in 1..(steps + 1) |-> S]} ELSE Walks(steps, S)

\* the arguments of calculate; sigma is the sign of market_data.volatility,
\* option_type "NONE" is a side that is neither OptionType.CALL nor
\* OptionType.PUT (Option.__init__ stores what it is given)
LSInputs ==
    [time_steps : {2},
     S : {3},
     K : {3, 4},
     option_type : {"CALL", "PUT"},
     dn : {1}, dd : {1, 2}, sigma : {1}]
    \cup [time_steps : {3}, S : {3}, K : {4}, option_type : {"CALL", "PUT"},
          dn : {1}, dd : {1, 2}, sigma : {1}]
    \cup [time_steps : {2}, S : {3}, K : {4}, option_type : {"PUT"},
          dn : {1}, dd : {1}, sigma : {0, -1}]
    \cup [time_steps : {2}, S : {3}, K : {4}, option_type : {"NONE"},
          dn : {1}, dd : {1, 2}, sigma : {1}]

NoStep ==
    [in_the_money |-> {}, exercise |-> {}, fitted |-> FALSE, raised |-> FALSE,
     ever_exercised |-> FALSE]

\* the state before the backward loop: paths simulated, terminal cash flows set
InitLS ==
    /\ ls \in LSInputs
    /\ \E e \in Ensembles(NumSimulations,
                          SimulatedWalks(ls.time_steps, ls.S, ls.sigma)) :
           asset_paths = [i \in Paths |-> Row(e[i])]
    /\ cash_flows = TerminalCashFlows
    /\ prev_cash_flows = cash_flows
    /\ t = ls.time_steps - 1
    /\ ls_price = [num |-> 0, den |-> 1]
    /\ last_step = NoStep

\* no Longstaff-Schwartz run
LSIdle ==
    /\ ls = [time_steps |-> 0]
    /\ asset_paths = <<>>
    /\ cash_flows = <<>>
    /\ prev_cash_flows = <<>>
    /\ t = Returned
    /\ ls_price = [num |-> 0, den |-> 1]
    /\ last_step = NoStep

\* a backward loop that fits from two in-the-money paths on
BackwardStepLSFitTwo ==
    /\ t >= 1
    /\ LET itm == {i \in Paths : InTheMoney(i, t)}
           x == [i \in itm |-> asset_paths[i][t]]
           y == [i \in itm |-> ls.dn * cash_flows[i][t + 1]]
       IN \/ /\ Cardinality(itm) < 2
             /\ UNCHANGED cash_flows
             /\ last_step' = [in_the_money |-> itm, exercise |-> {},
                              fitted |-> FALSE, raised |-> FALSE,
                              ever_exercised |-> last_step.ever_exercised]
          \/ /\ Cardinality(itm) >= 2
             /\ \E exercise \in ExerciseChoices(itm, x, Fit(itm, x, y)) :
                   /\ cash_flows' = UpdatedCashFlows(itm, exercise, x, t)
                   /\ last_step' = [in_the_money |-> itm, exercise |-> exercise,
                                    fitted |-> TRUE, raised |-> FALSE,
                                    ever_exercised |->
                                        last_step.ever_exercised \/ exercise # {}]
          \/ /\ Cardinality(itm) >= 2
             /\ UNCHANGED cash_flows
             /\ last_step' = [in_the_money |-> itm, exercise |-> {},
                              fitted |-> FALSE, raised |-> TRUE,
                              ever_exercised |-> last_step.ever_exercised]
    /\ prev_cash_flows' = cash_flows
    /\ t' = t - 1
    /\ UNCHANGED <<ls, asset_paths, ls_price>>

\* a backward loop that runs down to time index 0
BackwardStepLSToZero ==
    /\ t >= 0
    /\ LET itm == {i \in Paths : InTheMoney(i, t)}
           x == [i \in itm |-> asset_paths[i][t]]
           y == [i \in itm |-> ls.dn * cash_flows[i][t + 1]]
       IN \/ /\ Cardinality(itm) < 3
             /\ UNCHANGED cash_flows
             /\ last_step' = [in_the_money |-> itm, exercise |-> {},
                              fitted |-> FALSE, raised |-> FALSE,
                              ever_exercised |-> last_step.ever_exercised]
          \/ /\ Cardinality(itm) >= 3
             /\ \E exercise \in ExerciseChoices(itm, x, Fit(itm, x, y)) :
                   /\ cash_flows' = UpdatedCashFlows(itm, exercise, x, t)
                   /\ last_step' = [in_the_money |-> itm, exercise |-> exercise,
                                    fitted |-> TRUE, raised |-> FALSE,
                                    ever_exercised |->
                                        last_step.ever_exercised \/ exercise # {}]
          \/ /\ Cardinality(itm) >= 3
             /\ UNCHANGED cash_flows
             /\ last_step' = [in_the_money |-> itm, exercise |-> {},
                              fitted |-> FALSE, raised |-> TRUE,
                              ever_exercised |-> last_step.ever_exercised]
    /\ prev_cash_flows' = cash_flows
    /\ t' = t - 1
    /\ UNCHANGED <<ls, asset_paths, ls_price>>

\* a backward loop whose regression fails after the cash flows were written
BackwardStepLSFailsLate ==
    /\ t >= 1
    /\ LET itm == {i \in Paths : InTheMoney(i, t)}
           x == [i \in itm |-> asset_paths[i][t]]
           y == [i \in itm |-> ls.dn * cash_flows[i][t + 1]]
       IN \/ /\ Cardinality(itm) < 3
             /\ UNCHANGED cash_flows
             /\ last_step' = [in_the_money |-> itm, exercise |-> {},
                              fitted |-> FALSE, raised |-> FALSE,
                              ever_exercised |-> last_step.ever_exercised]
          \/ /\ Cardinality(itm) >= 3
             /\ \E exercise \in ExerciseChoices(itm, x, Fit(itm, x, y)) :
                   /\ cash_flows' = UpdatedCashFlows(itm, exercise, x, t)
                   /\ last_step' = [in_the_money |-> itm, exercise |-> exercise,
                                    fitted |-> TRUE, raised |-> FALSE,
                                    ever_exercised |->
                                        last_step.ever_exercised \/ exercise # {}]
          \/ /\ Cardinality(itm) >= 3
             /\ \E exercise \in ExerciseChoices(itm, x, Fit(itm, x, y)) :
                   cash_flows' = UpdatedCashFlows(itm, exercise, x, t)
             /\ last_step' = [in_the_money |-> itm, exercise |-> {},
                              fitted |-> FALSE, raised |-> TRUE,
                              ever_exercised |-> last_step.ever_exercised]
    /\ prev_cash_flows' = cash_flows
    /\ t' = t - 1
    /\ UNCHANGED <<ls, asset_paths, ls_price>>

\* one pass of `for t in range(time_steps - 1, 0, -1)`: the step is skipped
\* with fewer than 3 in-the-money paths; otherwise the regression is fitted
\* and the cash flows updated, or the fit raises and the bare `except:`
\* goes on with the next step
BackwardStepLS ==
    /\ t >= 1
    /\ LET itm == {i \in Paths : InTheMoney(i, t)}
           x == [i \in itm |-> asset_paths[i][t]]
           y == [i \in itm |-> ls.dn * cash_flows[i][t + 1]]
       IN \/ /\ Cardinality(itm) < 3
             /\ UNCHANGED cash_flows
             /\ last_step' = [in_the_money |-> itm, exercise |-> {},
                              fitted |-> FALSE, raised |-> FALSE,
                              ever_exercised |-> last_step.ever_exercised]
          \/ /\ Cardinality(itm) >= 3
             /\ \E exercise \in ExerciseChoices(itm, x, Fit(itm, x, y)) :
                   /\ cash_flows' = UpdatedCashFlows(itm, exercise, x, t)
                   /\ last_step' = [in_the_money |-> itm, exercise |-> exercise,
                                    fitted |-> TRUE, raised |-> FALSE,
                                    ever_exercised |->
                                        last_step.ever_exercised \/ exercise # {}]
          \/ /\ Cardinality(itm) >= 3
             /\ UNCHANGED cash_flows
             /\ last_step' = [in_the_money |-> itm, exercise |-> {},
                              fitted |-> FALSE, raised |-> TRUE,
                              ever_exercised |-> last_step.ever_exercised]
    /\ prev_cash_flows' = cash_flows
    /\ t' = t - 1
    /\ UNCHANGED <<ls, asset_paths, ls_price>>

\* discount_factors = np.exp(-r * dt * np.arange(time_steps + 1));
\* price = np.mean(np.sum(cash_flows * discount_factors, axis=1)),
\* as a fraction over NumSimulations * dd^time_steps
ReturnPriceLS ==
    /\ t = 0
    /\ ls_price' =
           [num |-> SumOver(Paths,
                       [i \in Paths |->
                           SumOver(0..ls.time_steps,
                               [s \in 0..ls.time_steps |->
                                   cash_flows[i][s] * Pow(ls.dn, s)
                                       * Pow(ls.dd, ls.time_steps - s)])]),
            den |-> NumSimulations * Pow(ls.dd, ls.time_steps)]
    /\ t' = Returned
    /\ UNCHANGED <<ls, asset_paths, cash_flows, prev_cash_flows, last_step>>

NextLS ==
    /\ BackwardStepLS \/ ReturnPriceLS
    /\ UNCHANGED greeksVars /\ UNCHANGED latticeVars /\ UNCHANGED mcVars /\ UNCHANGED iv


\* ------------------------------------------------------------------------
\* The Monte Carlo engine (monte_carlo_engine.py) and the generator np.random
\*
\* np.random is one generator for the whole process.  Its state is a number
\* 0..15; a variate is a function of the state and drawing moves the state
\* on (a linear congruential generator of full period stands for the
\* Mersenne twister).  A standard normal variate is one of -1, 0, 1: the
\* number of factors u = mc_option.U a price moves by in one time step (no
\* drift, sigma * sqrt(dt) = ln u).  Prices are kept times U^time_steps, so
\* that they are whole numbers; exp(-r * T) is mc_option.dn / mc_option.dd.
\* Times are ticks, as in the lattice.
\* ------------------------------------------------------------------------
\* number of MonteCarloEngine.calculate calls of a run
MaxMCCalls == 2

\* the MonteCarloEngine objects a run can construct
EngineIds == {1, 2}

\* seed = None
NoSeed == 0

\* the seeds given to MonteCarloEngine(seed=...)
Seeds == {7, 42}

\* the generator moving on by one variate
NextState(x) == (5 * x + 3) % 16

\* the variate drawn in state x
Variate(x) == (x % 3) - 1

\* np.random.seed(seed): the state is a function of the seed alone
SeedState(seed) == seed % 16

\* the state after n variates
RECURSIVE Advance(_, _)
Advance(x, n) == IF n = 0 THEN x ELSE Advance(NextState(x), n - 1)

\* np.random.standard_normal((num_simulations, time_steps)) drawn in state
\* x: the matrix is filled row by row
StandardNormal(x, time_steps) ==
    [i \in Paths |->
        [s \in 1..time_steps |-> Variate(Advance(x, (i - 1) * time_steps + s - 1))]]

\* the number of up-moves less down-moves of a path up to time index tt
RECURSIVE Exponent(_, _)
Exponent(zrow, tt) == IF tt = 0 THEN 0 ELSE Exponent(zrow, tt - 1) + zrow[tt]

\* asset_paths[:, 0] = S; asset_paths[:, t] = asset_paths[:, t - 1] * exp(...)
AssetPaths(z) ==
    [i \in Paths |->
        [tt \in 0..mc_option.time_steps |->
            mc_option.S * Pow(mc_option.U, mc_option.time_steps + Exponent(z[i], tt))]]

\* int(date / dt) with dt = T / time_steps, for a date that is not negative
ColumnIndex(date) == (date * mc_option.time_steps) \div mc_option.T

\* sorted(...) of a set of numbers
RECURSIVE SortedList(_)
SortedList(S) ==
    IF S = {} THEN <<>>
    ELSE LET m == CHOOSE x \in S : \A y \in S : x <= y
         IN <<m>> \o SortedList(S \ {m})

\* [int(date / dt) for date in option.averaging_dates if date <= T], then
\* list(set(...)) and .sort()
AveragingIndices ==
    LET dates == mc_option.averaging_dates
        kept == {n \in 1..Len(dates) : dates[n] <= mc_option.T}
    IN SortedList({ColumnIndex(dates[n]) : n \in kept})

\* the columns the payoff of a path is taken from: asset_paths[:, averaging_indices]
\* for an AsianOption, asset_paths[:, -1] otherwise
PayoffColumns ==
    IF mc_option.is_asian THEN AveragingIndices ELSE <<mc_option.time_steps>>

\* the sum of the cells of a row at the columns cols
RECURSIVE SumColumns(_, _)
SumColumns(row, cols) ==
    IF cols = <<>> THEN 0 ELSE row[Head(cols)] + SumColumns(row, Tail(cols))

\* option.payoff(np.mean(...)): max(avg - K, 0.0) for a CALL, max(K - avg, 0.0)
\* otherwise, as a numerator over n * U^time_steps for the sum of n cells
PayoffMC(sum, n) ==
    LET strike == mc_option.K * n * Pow(mc_option.U, mc_option.time_steps)
    IN IF mc_option.option_type = "CALL"
       THEN Max(sum - strike, 0)
       ELSE Max(strike - sum, 0)

\* the arguments of calculate: an AsianOption with its list of averaging
\* dates (any order, repeats allowed, dates after expiration allowed, one at
\* least not after it) or a EuropeanOption
RECURSIVE DateLists(_)
DateLists(n) ==
    IF n = 0 THEN {<<>>}
    ELSE DateLists(n - 1) \cup
         {Append(l, d) : l \in {l \in DateLists(n - 1) : Len(l) = n - 1},
                         d \in 0..(TTicks + 1)}

AsianInputs ==
    [is_asian : {TRUE},
     averaging_dates : {l \in DateLists(MaxDates) :
                            \E n \in 1..Len(l) : l[n] <= TTicks},
     option_type : {"CALL", "PUT"},
     S : {3}, K : {3}, U : {2}, T : {TTicks}, time_steps : {2, 3},
     dn : {1}, dd : {1, 2}]

MCInputs ==
    [is_asian : {TRUE}, averaging_dates : {<<2, 4>>}, option_type : {"CALL"},
     S : {3}, K : {3}, U : {2}, T : {TTicks}, time_steps : {2},
     dn : {1}, dd : {1}]
    \cup [is_asian : {FALSE}, averaging_dates : {<<>>}, option_type : {"CALL", "PUT"},
          S : {3}, K : {3}, U : {2}, T : {TTicks}, time_steps : {2},
          dn : {1}, dd : {1}]

\* a fresh process: np.random is seeded from the operating system
InitMC ==
    /\ rng \in 0..15
    /\ engines = <<>>
    /\ mc_option \in MCInputs
    /\ mc_log = <<>>

\* no Monte Carlo run
MCIdle ==
    /\ rng = 0
    /\ engines = <<>>
    /\ mc_option = [time_steps |-> 0]
    /\ mc_log = <<>>

\* MonteCarloEngine(seed): self.seed = seed; np.random.seed(seed) unless it
\* is None
ConstructMC(seed) ==
    /\ Len(engines) + 1 \in EngineIds
    /\ engines' = Append(engines, seed)
    /\ rng' = IF seed = NoSeed THEN rng ELSE SeedState(seed)
    /\ UNCHANGED <<mc_option, mc_log>>

\* engine e's calculate(option, market_data, num_simulations, time_steps):
\* the variates come from np.random as it stands; the standard error is not
\* followed
CalculateMC(e) ==
    /\ e \in DOMAIN engines
    /\ Len(mc_log) < MaxMCCalls
    /\ LET z == StandardNormal(rng, mc_option.time_steps)
           paths == AssetPaths(z)
           cols == PayoffColumns
           payoffs == [i \in Paths |-> PayoffMC(SumColumns(paths[i], cols), Len(cols))]
       IN mc_log' = Append(mc_log,
              [engine |-> e, seed |-> engines[e], asset_paths |-> paths,
               columns |-> cols, payoffs |-> payoffs,
               price |-> [num |-> mc_option.dn * SumOver(Paths, payoffs),
                          den |-> mc_option.dd * NumSimulations * Len(cols)
                                      * Pow(mc_option.U, mc_option.time_steps)]])
    /\ rng' = Advance(rng, NumSimulations * mc_option.time_steps)
    /\ UNCHANGED <<engines, mc_option>>

\* LongstaffSchwartzEngine.calculate draws its variates from np.random too
DrawLS ==
    /\ rng' = Advance(rng, NumSimulations * mc_option.time_steps)
    /\ UNCHANGED <<engines, mc_option, mc_log>>

NextMC ==
    /\ \/ \E seed \in Seeds \cup {NoSeed} : ConstructMC(seed)
       \/ \E e \in EngineIds : CalculateMC(e)
       \/ DrawLS
    /\ UNCHANGED greeksVars /\ UNCHANGED latticeVars /\ UNCHANGED lsVars /\ UNCHANGED iv

\* one calculate call for an Asian option, by an engine made without a seed
InitAsian ==
    /\ rng \in 0..15
    /\ engines = <<NoSeed>>
    /\ mc_option \in AsianInputs
    /\ mc_log = <<>>

NextAsian ==
    /\ mc_log = <<>>
    /\ CalculateMC(1)
    /\ UNCHANGED greeksVars /\ UNCHANGED latticeVars /\ UNCHANGED lsVars /\ UNCHANGED iv

\* ------------------------------------------------------------------------
\* The implied volatility search (implied_volatility.py)
\*
\* price_difference(sigma) = engine price - market_price is followed by its
\* sign at the ends of the two brackets, by what engine.calculate does
\* during the search of each bracket (returns, raises ValueError, raises
\* something else) and by whether brentq's iteration converges within
\* max_iter.
\* ------------------------------------------------------------------------
\* brentq(price_difference, 0.001, 5.0), then brentq(price_difference, 0.0001, 10.0)
Brackets ==
    <<[lo |-> "0.001", hi |-> "5.0"], [lo |-> "0.0001", hi |-> "10.0"]>>

BracketEnds == {"0.0001", "0.001", "5.0", "10.0"}

\* raise ValueError("Implied volatility calculation failed. ...")
CalculationFailed == "ValueError: Implied volatility calculation failed"

\* engine = AnalyticalEngine() for a EUROPEAN option, BinomialEngine() for
\* any other, when no engine is passed
SelectedEngine ==
    IF iv.engine_arg # "None" THEN iv.engine_arg
    ELSE IF iv.exercise_type = "EUROPEAN" THEN "AnalyticalEngine"
    ELSE "BinomialEngine"

\* scipy's brentq on bracket k: an exception of price_difference passes
\* through; f(lo) * f(hi) > 0 is a ValueError; a zero at an end is returned
\* at once; otherwise the iteration returns a root inside or gives up with
\* a RuntimeError after max_iter
Brentq(k) ==
    LET lo == iv.f[Brackets[k].lo]
        hi == iv.f[Brackets[k].hi]
    IN CASE iv.engine_does[k] = "raises ValueError" ->
                [kind |-> "ValueError", cause |-> "engine", root |-> "none"]
         [] iv.engine_does[k] = "raises another error" ->
                [kind |-> "engine error", cause |-> "engine", root |-> "none"]
         [] OTHER ->
                IF lo * hi > 0
                THEN [kind |-> "ValueError", cause |-> "no sign change",
                      root |-> "none"]
                ELSE IF lo = 0
                THEN [kind |-> "root", cause |-> "none", root |-> Brackets[k].lo]
                ELSE IF hi = 0
                THEN [kind |-> "root", cause |-> "none", root |-> Brackets[k].hi]
                ELSE IF iv.converges
                THEN [kind |-> "root", cause |-> "none", root |-> "inside"]
                ELSE [kind |-> "RuntimeError", cause |-> "max_iter",
                      root |-> "none"]

\* the bracket ends as volatilities in micro-units
VolatilityOf(end) ==
    CASE end = "0.0001" -> HDen \div 10
      [] end = "0.001" -> HDen
      [] end = "5.0" -> 5 * HDen * HDen
      [] end = "10.0" -> 10 * HDen * HDen

\* new_market_data = MarketData(risk_free_rate=market_data.risk_free_rate,
\* volatility=sigma, ...): a new object for every trial volatility
NewMarketData(sigma) ==
    [risk_free_rate |-> market_data.risk_free_rate, volatility |-> sigma]

\* the objects price_difference builds while brentq searches bracket k: one
\* for each end (the trial volatilities inside the bracket are not
\* followed); an engine that raises does so at the first trial
Trials(k) ==
    IF iv.engine_does[k] = "returns"
    THEN <<NewMarketData(VolatilityOf(Brackets[k].lo)),
           NewMarketData(VolatilityOf(Brackets[k].hi))>>
    ELSE <<NewMarketData(VolatilityOf(Brackets[k].lo))>>

IVInputs ==
    [pc : {"start"},
     engine_arg : {"None", "BinomialEngine"},
     exercise_type : ExerciseTypes,
     engine : {"none"},
     f : [BracketEnds -> {-1, 0, 1}],
     engine_does : [{1, 2} -> {"returns", "raises ValueError",
                               "raises another error"}],
     converges : BOOLEAN,
     bracket : {0}, root : {"none"}, error : {"none"}, causes : {<<>>},
     trials : {<<>>}]

InitIV == iv \in IVInputs

\* no implied volatility search
IVIdle == iv = [pc |-> "idle"]

\* lines 25-33: the engine the search prices with
SelectEngine ==
    /\ iv.pc = "start"
    /\ iv' = [iv EXCEPT !.pc = "first", !.engine = SelectedEngine]
    /\ UNCHANGED <<option, market_data>>

\* a first search that assigns the trial volatility to the caller's
\* market_data instead of building a new object
FirstBracketInPlace ==
    /\ iv.pc = "first"
    /\ LET b == Brentq(1)
       IN iv' = CASE b.kind = "root" ->
                        [iv EXCEPT !.pc = "returned", !.bracket = 1,
                                   !.root = b.root]
                  [] b.kind = "ValueError" ->
                        [iv EXCEPT !.pc = "second",
                                   !.causes = Append(@, b.cause)]
                  [] OTHER ->
                        [iv EXCEPT !.pc = "raised", !.error = b.kind,
                                   !.causes = Append(@, b.cause)]
    /\ market_data' = [market_data EXCEPT
                           !.volatility = VolatilityOf(Brackets[1].lo)]
    /\ UNCHANGED option

\* a first search whose ValueError ends the function with the ValueError of
\* line 58, the wider bracket not being tried
FirstBracketGivesUp ==
    /\ iv.pc = "first"
    /\ LET b == Brentq(1)
       IN iv' = CASE b.kind = "root" ->
                        [iv EXCEPT !.pc = "returned", !.bracket = 1,
                                   !.root = b.root,
                                   !.trials = @ \o Trials(1)]
                  [] b.kind = "ValueError" ->
                        [iv EXCEPT !.pc = "raised", !.error = CalculationFailed,
                                   !.causes = Append(@, b.cause),
                                   !.trials = @ \o Trials(1)]
                  [] OTHER ->
                        [iv EXCEPT !.pc = "raised", !.error = b.kind,
                                   !.causes = Append(@, b.cause),
                                   !.trials = @ \o Trials(1)]
    /\ UNCHANGED <<option, market_data>>

\* the outer try: return the root of the first bracket; a ValueError goes to
\* the handler of line 51, any other exception leaves the function
FirstBracket ==
    /\ iv.pc = "first"
    /\ LET b == Brentq(1)
       IN iv' = CASE b.kind = "root" ->
                        [iv EXCEPT !.pc = "returned", !.bracket = 1,
                                   !.root = b.root,
                                   !.trials = @ \o Trials(1)]
                  [] b.kind = "ValueError" ->
                        [iv EXCEPT !.pc = "second",
                                   !.causes = Append(@, b.cause),
                                   !.trials = @ \o Trials(1)]
                  [] OTHER ->
                        [iv EXCEPT !.pc = "raised", !.error = b.kind,
                                   !.causes = Append(@, b.cause),
                                   !.trials = @ \o Trials(1)]
    /\ UNCHANGED <<option, market_data>>

\* the inner try: return the root of the wider bracket; a ValueError is
\* replaced by the ValueError of line 58
SecondBracket ==
    /\ iv.pc = "second"
    /\ LET b == Brentq(2)
       IN iv' = CASE b.kind = "root" ->
                        [iv EXCEPT !.pc = "returned", !.bracket = 2,
                                   !.root = b.root,
                                   !.trials = @ \o Trials(2)]
                  [] b.kind = "ValueError" ->
                        [iv EXCEPT !.pc = "raised", !.error = CalculationFailed,
                                   !.causes = Append(@, b.cause),
                                   !.trials = @ \o Trials(2)]
                  [] OTHER ->
                        [iv EXCEPT !.pc = "raised", !.error = b.kind,
                                   !.causes = Append(@, b.cause),
                                   !.trials = @ \o Trials(2)]
    /\ UNCHANGED <<option, market_data>>

NextIV ==
    /\ SelectEngine \/ FirstBracket \/ SecondBracket
    /\ UNCHANGED <<frames, ncalls, overlap>>
    /\ UNCHANGED latticeVars /\ UNCHANGED lsVars /\ UNCHANGED mcVars

\* ------------------------------------------------------------------------
\* Specifications
\* ------------------------------------------------------------------------
\* the inputs: one million micro-units = 1.0
Micro == HDen * HDen

InitGreeks ==
    /\ \E class \in OptionClasses, S \in {Micro, 2 * Micro}, T \in {0, 1, 30} :
           option = NewOption(class, S, T)
    /\ market_data \in [volatility : {Micro, 2 * Micro},
                        risk_free_rate : {0, Micro}]
    /\ frames = [th \in Threads |-> IdleFrame]
    /\ ncalls = 0
    /\ overlap = FALSE

GreeksStep(th) ==
    \/ \E op \in GreekNames \cup {"all"} : Invoke(th, op)
    \/ SaveOriginal(th)
    \/ Perturb(th, "up")
    \/ Perturb(th, "down")
    \/ ResetField(th)
    \/ EngineReturns(th)
    \/ EngineRaises(th)
    \/ ReturnGreek(th)

\* one caller, calls one after the other
Init == InitGreeks /\ LatticeIdle /\ LSIdle /\ MCIdle /\ IVIdle
Next ==
    /\ GreeksStep(1)
    /\ UNCHANGED latticeVars /\ UNCHANGED lsVars /\ UNCHANGED mcVars /\ UNCHANGED iv
Spec == Init /\ [][Next]_vars

\* two callers sharing option and market_data, no synchronization; each
\* invokes one single Greek (calculate_all is the same statements in a row)
InitConc ==
    /\ option = NewOption("AmericanOption", Micro, 30)
    /\ market_data \in [volatility : {Micro},
                        risk_free_rate : {0, Micro}]
    /\ frames = [th \in Threads |-> IdleFrame]
    /\ ncalls = 0
    /\ overlap = FALSE
    /\ LatticeIdle
    /\ LSIdle
    /\ MCIdle
    /\ IVIdle

ConcStep(th) ==
    \/ \E op \in GreekNames : frames[th].status = "idle" /\ Invoke(th, op)
    \/ SaveOriginal(th)
    \/ Perturb(th, "up")
    \/ Perturb(th, "down")
    \/ ResetField(th)
    \/ EngineReturns(th)
    \/ EngineRaises(th)
    \/ ReturnGreek(th)

\* the lattice engine alone; the Longstaff-Schwartz engine alone
InitLatticeOnly == InitLattice /\ GreeksIdle /\ LSIdle /\ MCIdle /\ IVIdle
SpecLattice == InitLatticeOnly /\ [][NextLattice]_vars

InitLSOnly == InitLS /\ GreeksIdle /\ LatticeIdle /\ MCIdle /\ IVIdle
SpecLS == InitLSOnly /\ [][NextLS]_vars

NextConc ==
    /\ \E th \in Threads : ConcStep(th)
    /\ UNCHANGED latticeVars /\ UNCHANGED lsVars /\ UNCHANGED mcVars /\ UNCHANGED iv
SpecConc == InitConc /\ [][NextConc]_vars

\* a process that constructs Monte Carlo engines and prices with them and
\* with the Longstaff-Schwartz engine, in any order
InitMCOnly == InitMC /\ GreeksIdle /\ LatticeIdle /\ LSIdle /\ IVIdle
SpecMC == InitMCOnly /\ [][NextMC]_vars

\* one Monte Carlo pricing of an Asian option
InitAsianOnly == InitAsian /\ GreeksIdle /\ LatticeIdle /\ LSIdle /\ IVIdle
SpecAsian == InitAsianOnly /\ [][NextAsian]_vars

\* one implied volatility search
InitIVOnly == InitIV /\ GreeksIdle /\ LatticeIdle /\ LSIdle /\ MCIdle
SpecIV == InitIVOnly /\ [][NextIV]_vars

\* a caller with one option and one market_data object who runs Greeks
\* calculations and an implied volatility search on them, one call at a time
InitCaller ==
    /\ \E class \in {"EuropeanOption", "AmericanOption"} :
           option = NewOption(class, Micro, 30)
    /\ market_data \in [volatility : {Micro}, risk_free_rate : {0, Micro}]
    /\ frames = [th \in Threads |-> IdleFrame]
    /\ ncalls = 0
    /\ overlap = FALSE
    /\ iv \in {i \in IVInputs :
                  /\ i.engine_arg = "None"
                  /\ i.exercise_type = option.exercise_type
                  /\ i.converges
                  /\ i.engine_does[2] = "returns"
                  /\ i.f["0.0001"] = -1 /\ i.f["0.001"] = -1
                  /\ i.f["10.0"] = 1}
    /\ LatticeIdle
    /\ LSIdle
    /\ MCIdle

NextCaller ==
    /\ \/ iv.pc \notin {"first", "second"} /\ GreeksStep(1) /\ UNCHANGED iv
       \/ /\ ~Running(1)
          /\ SelectEngine \/ FirstBracket \/ SecondBracket
          /\ UNCHANGED <<frames, ncalls, overlap>>
    /\ UNCHANGED latticeVars /\ UNCHANGED lsVars /\ UNCHANGED mcVars
SpecCaller == InitCaller /\ [][NextCaller]_vars

\* ------------------------------------------------------------------------
\* Claims about the Greeks estimator
\* ------------------------------------------------------------------------
AllFields == {"underlying_price", "expiration_time", "volatility", "risk_free_rate"}

\* C1: whenever calculate_delta/gamma/theta/vega/rho/all returns normally,
\* underlying_price, expiration_time, volatility and risk_free_rate equal the
\* values they had when the call started, and every Greek inside
\* calculate_all starts from that original state.
C1_RestoredOnReturn ==
    \A th \in Threads :
        /\ frames[th].status = "returned" => Snapshot = frames[th].start
        /\ (Running(th) /\ frames[th].ip = 1) => Snapshot = frames[th].start

C1_Witness ==
    /\ frames[1].status = "returned"
    /\ frames[1].op = "all"
    /\ Len(frames[1].results) = Len(AllOrder)

\* C2: if the engine raises during a Greek computation, the perturbed field
\* is back at its pre-perturbation value when the exception leaves the
\* estimator, so option and market_data are unchanged on that exit path too.
C2_RestoredOnException ==
    \A th \in Threads :
        frames[th].status = "raised" => Snapshot = frames[th].start

\* the state the k-th engine call of a Greek is meant to see in the bumped
\* field, x being the field's original value
ExpectedSeen(g, k, x) ==
    LET up == (x * 1001) \div 1000
        down == (x * 999) \div 1000
    IN CASE g = "delta" -> <<up, down>>[k]
         [] g = "gamma" -> <<x, up, down>>[k]
         [] g = "theta" -> <<x - 1, x>>[k]
         [] g = "vega" -> <<up, down, x>>[k]
         [] g = "rho" -> <<up, down>>[k]

\* C10: every engine call of the estimator sees a state that differs from
\* the original one in at most the one field of the Greek (price for delta
\* and gamma, time for theta, volatility for vega, rate for rho), with the
\* stated bump, and the reference prices P(S) of gamma and P(T) of theta see
\* the original state.
C10_OneFieldPerturbed ==
    \A th \in Threads :
        \A k \in 1..Len(frames[th].prices) :
            LET seen == frames[th].prices[k]
                g == frames[th].greek
            IN /\ \A fld \in AllFields \ {FieldOf(g)} :
                      seen[fld] = frames[th].start[fld]
               /\ seen[FieldOf(g)] = ExpectedSeen(g, k, frames[th].start[FieldOf(g)])

C10_Witness ==
    /\ frames[1].op = "all"
    /\ frames[1].greek = "theta"
    /\ Len(frames[1].prices) = 2

\* the statements of th's current Greek that have been executed
Executed(th) ==
    {Program(frames[th].greek)[k] : k \in 1..(frames[th].ip - 1)}

\* th has bumped its field and not yet reset it
InWindow(th) ==
    /\ Running(th)
    /\ "up" \in Executed(th)
    /\ "reset" \notin Executed(th)

\* every thread made at most one call, and none ended in an exception
OneCallEach ==
    /\ \A th \in Threads : frames[th].status \in {"idle", "returned"}
    /\ ncalls = Cardinality({th \in Threads : frames[th].status = "returned"})

\* C9: while a Greeks computation is in progress the bumped value is what the
\* shared object holds (any reader sees it), and invocations leave the
\* object at its original value when they did not overlap: only overlapping
\* invocations can leave it changed (the witness is such a run).
C9_WindowObservable ==
    /\ \A th \in Threads :
           (/\ InWindow(th)
            /\ \A u \in Threads \ {th} : frames[u].status = "idle"
            /\ frames[th].start[FieldOf(frames[th].greek)] # 0)
           => ReadField(FieldOf(frames[th].greek))
                  # frames[th].start[FieldOf(frames[th].greek)]
    /\ (OneCallEach /\ ~overlap)
           => \A th \in Threads :
                  frames[th].status = "returned" => Snapshot = frames[th].start

\* two overlapping invocations have both returned normally and the shared
\* object is not what it was when one of them started
C9_Witness ==
    /\ OneCallEach
    /\ \A th \in Threads : frames[th].status = "returned"
    /\ \E th \in Threads : Snapshot # frames[th].start
    /\ \E th \in Threads :
           frames[th].original # frames[th].start[FieldOf(frames[th].greek)]

\* ------------------------------------------------------------------------
\* Claims about the lattice engine
\* ------------------------------------------------------------------------
\* a backward step has been done; the last one was step j + 1
StepDone == lattice.steps > 0 /\ j < lattice.steps - 1 /\ j >= -1

\* the risk-neutral probability lies in [0, 1]
ProbabilityInUnitInterval == 0 <= PNum /\ PNum <= PDen

\* the time (j + 1) * dt is less than dt / 2 away from an exercise date
MatchesDate ==
    \E date \in lattice.exercise_dates :
        /\ 2 * ((j + 1) * lattice.T - lattice.steps * date) < lattice.T
        /\ 2 * (lattice.steps * date - (j + 1) * lattice.T) < lattice.T

\* C6: every node value of the backward induction is resolved by exercise
\* style: EUROPEAN is the continuation value, AMERICAN the larger of exercise
\* and continuation value at every node of every step, BERMUDAN that maximum
\* exactly at the steps whose time is within dt/2 of an exercise date and the
\* continuation value at the other steps.
C6_ResolvedByStyle ==
    StepDone =>
        \A i \in 0..(j + 1) :
            LET cont(style) == ContinuationValue(prev_values[style][i],
                                                 prev_values[style][i + 1])
                exer == ExerciseValue(j + 1, i)
            IN /\ option_values["EUROPEAN"][i] = cont("EUROPEAN")
               /\ option_values["AMERICAN"][i] =
                      (IF exer > cont("AMERICAN") THEN exer ELSE cont("AMERICAN"))
               /\ option_values["BERMUDAN"][i] =
                      (IF MatchesDate /\ exer > cont("BERMUDAN")
                       THEN exer ELSE cont("BERMUDAN"))

\* a Bermudan step that exercises at a node, after a step that could not
C6_Witness ==
    /\ StepDone
    /\ j + 1 < lattice.steps - 1
    /\ MatchesDate
    /\ option_values["BERMUDAN"][0] # option_values["EUROPEAN"][0]
    /\ option_values["BERMUDAN"][0] # option_values["AMERICAN"][0]

\* C7: with the risk-neutral probability in [0, 1] and otherwise identical
\* inputs, the AMERICAN lattice value is at least the EUROPEAN one at every
\* node of every step, and so is the returned price.
C7_AmericanAboveEuropean ==
    (lattice.steps > 0 /\ ProbabilityInUnitInterval) =>
        /\ \A i \in 0..(j + 1) :
               option_values["AMERICAN"][i] >= option_values["EUROPEAN"][i]
        /\ j = Returned => price["AMERICAN"] >= price["EUROPEAN"]

\* an early-exercise premium: the prices are returned and differ
C7_Witness ==
    /\ lattice.steps > 1
    /\ ProbabilityInUnitInterval
    /\ j = Returned
    /\ price["AMERICAN"] > price["EUROPEAN"]

\* C8: for identical other inputs the BERMUDAN lattice price, whatever the
\* exercise dates within [0, T], lies between the EUROPEAN and the AMERICAN
\* lattice price.
C8_BermudanBracketed ==
    (lattice.steps > 0 /\ j = Returned) =>
        /\ price["EUROPEAN"] <= price["BERMUDAN"]
        /\ price["BERMUDAN"] <= price["AMERICAN"]

\* the same, for the inputs whose risk-neutral probability is in [0, 1]
C8_BracketedInUnitInterval ==
    ProbabilityInUnitInterval => C8_BermudanBracketed


\* ------------------------------------------------------------------------
\* Claims about the Longstaff-Schwartz engine
\* ------------------------------------------------------------------------
\* the time indices at which path i has a non-zero cash flow
NonZero(i) == {s \in 0..ls.time_steps : cash_flows[i][s] # 0}

RunningLS == ls.time_steps > 0

\* a backward step has been done; the last one was step t + 1
StepDoneLS == RunningLS /\ t >= 0 /\ t < ls.time_steps - 1

\* C3: at every point of the backward induction (after the terminal
\* initialisation and after each backward step) every row of the cash-flow
\* matrix has at most one non-zero cell.
C3_AtMostOneCashFlow ==
    RunningLS => \A i \in Paths : Cardinality(NonZero(i)) <= 1

\* a path that had a terminal cash flow exercises at an earlier step
C3_Witness ==
    /\ StepDoneLS
    /\ \E i \in last_step.exercise :
           /\ prev_cash_flows[i][ls.time_steps] # 0
           /\ cash_flows[i][t + 1] # 0

\* C4: in backward step t the cash flows of a path at times > t are set to
\* zero only if the path exercises at t; an in-the-money path that does not
\* exercise at t keeps its later cash flows unchanged.
C4_ZeroedOnlyIfExercised ==
    StepDoneLS =>
        \A i \in Paths \ last_step.exercise :
            \A s \in (t + 2)..ls.time_steps :
                cash_flows[i][s] = prev_cash_flows[i][s]

\* path i is in-the-money at some time index
EverInTheMoney(i) == \E s \in 0..ls.time_steps : InTheMoney(i, s)

\* C5 (as stated): after the backward induction every row has exactly one
\* non-zero entry or is all-zero, and it is all-zero only if the path was
\* never in-the-money at any time index.
C5_AllZeroOnlyIfNeverInTheMoney ==
    (RunningLS /\ t <= 0) =>
        \A i \in Paths :
            /\ Cardinality(NonZero(i)) <= 1
            /\ NonZero(i) = {} => ~EverInTheMoney(i)

\* C5 (amended): after the backward induction every row has at most one
\* non-zero entry, and the row of a path that was never in-the-money at any
\* time index is all-zero.
C5_NeverInTheMoneyIsAllZero ==
    (RunningLS /\ t <= 0) =>
        \A i \in Paths :
            /\ Cardinality(NonZero(i)) <= 1
            /\ ~EverInTheMoney(i) => NonZero(i) = {}

\* the run is over with a path that was never in-the-money beside a path
\* that was and has its one cash flow
C5_Witness ==
    /\ RunningLS
    /\ t = Returned
    /\ \E i \in Paths : ~EverInTheMoney(i)
    /\ \E i \in Paths : EverInTheMoney(i) /\ Cardinality(NonZero(i)) = 1

\* ------------------------------------------------------------------------
\* Claims about the validation of the inputs
\* ------------------------------------------------------------------------
\* C11: an engine called with a volatility that is not positive (or a step
\* or path count that is not positive) fails with an invalid-input error
\* before any computation: the call does no backward step and returns no
\* price.
C11_InvalidInputRejected ==
    (RunningLS /\ ls.sigma <= 0) => (t = ls.time_steps - 1 /\ last_step = NoStep)

\* C12: the lattice engine reports a numerical degeneracy when u = d or the
\* risk-neutral probability p is not inside (0, 1): it does no backward
\* induction step with such a p and returns no price.
C12_DegeneracyReported ==
    (lattice.steps > 0 /\ (PDen = 0 \/ PNum <= 0 \/ PNum >= PDen)) =>
        (j = lattice.steps - 1 /\ prev_values = option_values)

\* C13: the lattice engine called with an exercise style that is none of
\* EUROPEAN, AMERICAN, BERMUDAN fails with an invalid-input error: it
\* returns no price for that style.
C13_UnknownStyleRejected ==
    (lattice.steps > 0 /\ j = Returned) =>
        \A style \in DOMAIN price :
            style \in {"EUROPEAN", "AMERICAN", "BERMUDAN"}

\* C14: LongstaffSchwartzEngine.calculate called with an option side that is
\* neither CALL nor PUT fails with an invalid-contract error before the
\* simulation: the call does no backward step and returns no price.
C14_InvalidSideRejected ==
    (RunningLS /\ ls.option_type \notin {"CALL", "PUT"}) =>
        (t = ls.time_steps - 1 /\ last_step = NoStep)

\* ------------------------------------------------------------------------
\* Claims about the backward loop of the Longstaff-Schwartz engine
\* ------------------------------------------------------------------------
\* the paths in-the-money at time index tt
InTheMoneyAt(tt) == {i \in Paths : InTheMoney(i, tt)}

EuropeanNum ==
    Pow(ls.dn, ls.time_steps)
        * SumOver(Paths, [i \in Paths |-> PayoffLS(asset_paths[i][ls.time_steps])])

\* C22: a run in which no path ever exercises early (every step skipped, or
\* no in-the-money path's exercise value above the fitted continuation
\* value) returns the mean over the paths of the terminal payoff discounted
\* by exp(-r * T), the European value on the same paths.
C22_NoExerciseIsEuropean ==
    (RunningLS /\ t = Returned /\ ~last_step.ever_exercised) =>
        ls_price.num = EuropeanNum

\* C23: a regression fit that raises at a step is recovered from: the
\* cash-flow matrix is exactly what it was before the step, no error ends
\* the run, and the induction goes on with the next earlier step.
C23_FitFailureRecovered ==
    (RunningLS /\ last_step.raised) =>
        /\ cash_flows = prev_cash_flows
        /\ t = Returned \/ t \in 0..(ls.time_steps - 2)

\* the fit has raised at a step with three in-the-money paths, one of them
\* holding a later cash flow, and a further step is still to come
C23_Witness ==
    /\ RunningLS
    /\ last_step.raised
    /\ t >= 1
    /\ Cardinality(last_step.in_the_money) >= 3
    /\ \E i \in last_step.in_the_money :
           \E s \in (t + 2)..ls.time_steps : cash_flows[i][s] # 0

\* ------------------------------------------------------------------------
\* Claims about the Monte Carlo engine and the implied volatility search
\* ------------------------------------------------------------------------
\* C15: two path simulations with the same seed and the same parameters
\* give identical path matrices, also for two successive calculate calls of
\* the same seeded engine and whatever other engines were constructed or
\* used in between.
C15_SameSeedSamePaths ==
    \A a, b \in 1..Len(mc_log) :
        (mc_log[a].seed # NoSeed /\ mc_log[a].seed = mc_log[b].seed) =>
            mc_log[a].asset_paths = mc_log[b].asset_paths

\* kk is a column index nearest to the time date: |kk * dt - date| <= dt / 2
IsNearestIndex(kk, date) ==
    2 * Abs(kk * mc_option.T - date * mc_option.time_steps) <= mc_option.T

\* the averaging dates that are not after expiration
DatesKept ==
    {mc_option.averaging_dates[n] :
        n \in {n \in 1..Len(mc_option.averaging_dates) :
                   mc_option.averaging_dates[n] <= mc_option.T}}

\* C18: for an Asian option the Monte Carlo engine maps each averaging time
\* that is not after expiration to the nearest column index; the index list
\* has no duplicates, is sorted ascending and lies within 0..time_steps; the
\* payoff of a path is taken from the mean of exactly those columns.
C18_NearestColumns ==
    \A c \in 1..Len(mc_log) :
        LET cols == mc_log[c].columns
            idx == {cols[n] : n \in 1..Len(cols)}
        IN mc_option.is_asian =>
            /\ \A date \in DatesKept : \E kk \in idx : IsNearestIndex(kk, date)
            /\ \A kk \in idx : \E date \in DatesKept : IsNearestIndex(kk, date)
            /\ \A n \in 1..(Len(cols) - 1) : cols[n] < cols[n + 1]
            /\ idx \subseteq 0..mc_option.time_steps
            /\ \A i \in Paths :
                   mc_log[c].payoffs[i] =
                       PayoffMC(SumColumns(mc_log[c].asset_paths[i], cols), Len(cols))

\* C19: the error 'Implied volatility calculation failed' stands for a
\* convergence failure (no sign change in either bracket) only: an
\* invalid-input error raised by the engine during the search is not
\* reported as that error.
C19_FailureNotFromEngine ==
    (iv.pc = "raised" /\ iv.error = CalculationFailed) =>
        \A k \in 1..Len(iv.causes) : iv.causes[k] = "no sign change"

\* ------------------------------------------------------------------------
\* Claims about the option object
\* ------------------------------------------------------------------------
\* C21: the engines and the implied volatility search never write a field
\* of the option or the market data handed to them (the search prices every
\* trial volatility with a new MarketData): a step that changes one of the
\* two objects is a bump or a reset of the Greeks estimator.
C21_OnlyGreeksWrite ==
    [][(option' # option \/ market_data' # market_data) =>
           (At(1, "up") \/ At(1, "down") \/ At(1, "reset"))]_vars

\* the search has returned after pricing with new objects of other
\* volatilities than the caller's, and a Greeks calculation has returned
C21_Witness ==
    /\ iv.pc = "returned"
    /\ Len(iv.trials) >= 2
    /\ \A n \in 1..Len(iv.trials) :
           /\ iv.trials[n].volatility # market_data.volatility
           /\ iv.trials[n].risk_free_rate = market_data.risk_free_rate
    /\ frames[1].status = "returned"
    /\ Len(frames[1].results[1].prices) >= 2

\* C20: exercise_type is fixed when the option is constructed (EUROPEAN
\* for EuropeanOption, AMERICAN for AmericanOption, BERMUDAN for
\* BermudanOption, ASIAN for AsianOption): before, during and after every
\* Greeks calculation and the pricing calls it makes the field has the
\* value its constructor gave it.
C20_ExerciseTypeFixed ==
    option.exercise_type = ExerciseTypeOf(option.class)

\* calculate_all has returned for an option that is not European, after
\* its theta has written and reset expiration_time
C20_Witness ==
    /\ frames[1].status = "returned"
    /\ frames[1].op = "all"
    /\ option.exercise_type = "BERMUDAN"
    /\ \E k \in 1..Len(frames[1].results) :
           /\ frames[1].results[k].greek = "theta"
           /\ Len(frames[1].results[k].prices) = 2

\* C24: calculate_theta never hands a negative time to expiration to the
\* engine: for an option whose expiration_time is >= 0 when the calculation
\* starts (less than one day included), every engine call of the theta
\* computation sees an expiration_time >= 0.
C24_ThetaTimeNonNegative ==
    \A th \in Threads :
        (frames[th].greek = "theta" /\ frames[th].start.expiration_time >= 0) =>
            \A k \in 1..Len(frames[th].prices) :
                frames[th].prices[k].expiration_time >= 0

\* ------------------------------------------------------------------------
\* Claims about the exercise rule of the lattice engine
\* ------------------------------------------------------------------------
\* |jj * dt - date| < dt / 2, multiplied by 2 * steps
WithinHalfStep(jj, date) ==
    Abs(2 * jj * lattice.T - 2 * lattice.steps * date) < lattice.T

\* the steps of the backward loop
LoopSteps == 0..(lattice.steps - 1)

HandledStyles == {"EUROPEAN", "AMERICAN", "BERMUDAN"}

\* the induction with an array of its own for every step: the values of
\* step jj are computed from the array of step jj + 1 only
RECURSIVE SeparateArrays(_, _)
SeparateArrays(style, jj) ==
    IF jj = lattice.steps THEN TerminalValues(lattice.steps)
    ELSE LET next == SeparateArrays(style, jj + 1)
         IN [i \in 0..jj |-> NodeValue(style, jj, i, 0, next[i], next[i + 1])]

\* C26: the backward induction on the single array, overwritten in place
\* for i ascending, gives every node the value of an induction that keeps
\* an array per step: node (j, i) is computed from the step j + 1 values of
\* the nodes (j + 1, i) and (j + 1, i + 1), never from a value of step j.
C26_InPlaceIsSeparateArrays ==
    StepDone =>
        \A style \in HandledStyles :
            \A i \in 0..(j + 1) :
                option_values[style][i] = SeparateArrays(style, j + 1)[i]

\* a step with two or more nodes has been done in which a cell that a later
\* node of the step has read was overwritten with another value
C26_Witness ==
    /\ StepDone
    /\ j + 1 >= 1
    /\ \E style \in HandledStyles :
           \E i \in 0..j :
               /\ option_values[style][i] # prev_values[style][i] * lattice.dd * PDen
               /\ option_values[style][i + 1] # prev_values[style][i + 1] * lattice.dd * PDen

\* the exercise dates are exactly the grid times 0, dt, ..., (steps - 1) * dt
\* (date = jj * T / steps, multiplied by steps)
DatesAreGridTimes ==
    /\ \A jj \in LoopSteps :
           \E date \in lattice.exercise_dates : lattice.steps * date = jj * lattice.T
    /\ \A date \in lattice.exercise_dates :
           \E jj \in LoopSteps : lattice.steps * date = jj * lattice.T

\* C27: a BERMUDAN option with no exercise date gets exactly the values and
\* the price of the EUROPEAN option on the same lattice, and a BERMUDAN
\* option whose exercise dates are exactly the grid times 0, dt, ...,
\* (steps - 1) * dt exactly those of the AMERICAN option.
C27_BermudanLimits ==
    lattice.steps > 0 =>
        /\ lattice.exercise_dates = {} =>
               /\ option_values["BERMUDAN"] = option_values["EUROPEAN"]
               /\ price["BERMUDAN"] = price["EUROPEAN"]
        /\ DatesAreGridTimes =>
               /\ option_values["BERMUDAN"] = option_values["AMERICAN"]
               /\ price["BERMUDAN"] = price["AMERICAN"]

\* the price of a lattice of two or more steps has been returned for
\* exercise dates on every grid time, and early exercise has a value
C27_Witness ==
    /\ lattice.steps >= 2
    /\ j = Returned
    /\ DatesAreGridTimes
    /\ price["AMERICAN"] # price["EUROPEAN"]

\* C28: the lattice price of an AMERICAN option is never below the payoff
\* of exercising it at once at the current underlying price: the root node
\* (step 0) too takes the larger of exercise and continuation value.
C28_AmericanAtLeastPayoff ==
    (lattice.steps > 0 /\ j = Returned) =>
        price["AMERICAN"] >= ExerciseValue(0, 0)

\* a price has been returned that is the positive payoff of exercising at
\* once, the continuation value at the root node being smaller
C28_Witness ==
    /\ lattice.steps > 0
    /\ j = Returned
    /\ price["AMERICAN"] = ExerciseValue(0, 0)
    /\ price["AMERICAN"] > 0
    /\ price["AMERICAN"] >
           ContinuationValue(prev_values["AMERICAN"][0], prev_values["AMERICAN"][1])

\* ------------------------------------------------------------------------
\* Claims about the order of the implied volatility search
\* ------------------------------------------------------------------------
\* C29: calculate_implied_volatility searches [0.001, 5.0] first and
\* [0.0001, 10.0] only after the first search has failed with a ValueError;
\* it returns the root of the first search that finds one, and raises its
\* 'Implied volatility calculation failed' ValueError only after both
\* searches have failed with a ValueError.  With no engine passed it prices
\* with the analytical engine exactly for a EUROPEAN option and with the
\* binomial engine for every other exercise style.
C29_SearchOrder ==
    iv.pc # "idle" =>
        /\ iv.trials # <<>> =>
               iv.trials[1].volatility = VolatilityOf(Brackets[1].lo)
        /\ iv.pc = "second" =>
               Brentq(1).kind = "ValueError" /\ Len(iv.causes) = 1
        /\ iv.pc = "returned" =>
               \/ /\ iv.bracket = 1
                  /\ Brentq(1).kind = "root"
                  /\ iv.root = Brentq(1).root
                  /\ iv.causes = <<>>
               \/ /\ iv.bracket = 2
                  /\ Brentq(1).kind = "ValueError"
                  /\ Brentq(2).kind = "root"
                  /\ iv.root = Brentq(2).root
                  /\ Len(iv.causes) = 1
        /\ (iv.pc = "raised" /\ iv.error = CalculationFailed) =>
               /\ Brentq(1).kind = "ValueError"
               /\ Brentq(2).kind = "ValueError"
               /\ Len(iv.causes) = 2
        /\ (iv.pc # "start" /\ iv.engine_arg = "None") =>
               (iv.engine = "AnalyticalEngine" <=> iv.exercise_type = "EUROPEAN")
                   /\ iv.engine \in {"AnalyticalEngine", "BinomialEngine"}

\* the search of a BERMUDAN option with no engine passed has returned the
\* root of the wider bracket, the first bracket holding no sign change
C29_Witness ==
    /\ iv.pc = "returned"
    /\ iv.bracket = 2
    /\ iv.causes = <<"no sign change">>
    /\ iv.engine_arg = "None"
    /\ iv.exercise_type = "BERMUDAN"
    /\ iv.engine = "BinomialEngine"

====
